---- MODULE Spec2Model ----
(***************************************************************************)
(* Match lifecycle and player availability of backend/app.py: the tables   *)
(* players, matches and attendance, and the admin handlers that write      *)
(* them (attendance, create_match, create_custom_match, start_match,       *)
(* cancel_match, finish_match).                                            *)
(*                                                                         *)
(* A nullable column is a sequence of length 0 (NULL) or 1 (the value).    *)
(* A text that the code parses (score, present_players) is a sequence of   *)
(* one-character strings or of tokens, so that parsing is computed.        *)
(***************************************************************************)
EXTENDS Integers, Sequences, FiniteSets, TLC

\* ------------------------------------------------------------------ bounds
\* rows the matches table may hold
MaxMatches == 2
\* requests a behaviour may hold
MaxRequests == 4
\* characters of a score text
MaxScoreLen == 7

\* ------------------------------------------------------------- directory
\* players table: usernames in table order, and the gender column
Directory == <<"m1", "f1", "m2", "f2", "m3">>
Usernames == {Directory[i] : i \in 1..Len(Directory)}
Gender == [u \in Usernames |-> IF u \in {"f1", "f2"} THEN "Female" ELSE "Male"]

Today == "d2"
Dates == {"d1", "d2"}
GameTypes == {"Mixed Doubles"}

Null == <<>>
Some(v) == <<v>>

\* ---------------------------------------------------------- generate_remark
Digits == {"0", "1", "2", "3", "4", "5", "6", "7", "8", "9"}
DigitVal(c) == CHOOSE n \in 0..9 : ToString(n) = c

\* re.findall(r'\d+', score) followed by int(): the maximal digit runs, in
\* order of appearance. cur is the run being read (<<>> or <<value>>).
RECURSIVE FindInts(_, _, _)
FindInts(s, cur, acc) ==
    IF s = <<>> THEN acc \o cur
    ELSE IF Head(s) \in Digits
         THEN FindInts(Tail(s),
                       IF cur = <<>> THEN <<DigitVal(Head(s))>>
                       ELSE <<cur[1] * 10 + DigitVal(Head(s))>>,
                       acc)
         ELSE FindInts(Tail(s), <<>>, acc \o cur)

\* sum(games[from::2]) with from a 1-based position
RECURSIVE SumEvery2(_, _)
SumEvery2(games, from) ==
    IF from > Len(games) THEN 0 ELSE games[from] + SumEvery2(games, from + 2)

Abs(n) == IF n < 0 THEN 0 - n ELSE n

\* the tiers with the limits left out of them
Tier_Strict(difference) ==
    IF difference < 2 THEN "Nice Close Game!"
    ELSE IF difference < 5 THEN "Well Fought Match!"
    ELSE "Decisive Victory!"

Tier(difference) ==
    IF difference <= 2 THEN "Nice Close Game!"
    ELSE IF difference <= 5 THEN "Well Fought Match!"
    ELSE "Decisive Victory!"

generate_remark(score) ==
    IF score = <<>> THEN ""
    ELSE LET games == FindInts(score, <<>>, <<>>)
         IN IF Len(games) < 2 \/ Len(games) % 2 # 0 THEN ""
            ELSE Tier(Abs(SumEvery2(games, 1) - SumEvery2(games, 2)))

\* finish_match submissions: winner_team and score
FinishForms ==
    { [winner_team |-> "Team 1", score |-> <<"2", "1", "-", "1", "9">>],
      [winner_team |-> "Team 2", score |-> <<"w", "o">>],
      [winner_team |-> "Team 3", score |-> <<"2", "1", "-", "1", "5">>] }


\* ------------------------------------------------------------------ tables
Range(s) == {s[i] : i \in 1..Len(s)}

\* ','.join(present_players): the text as a sequence of tokens
RECURSIVE Join(_)
Join(list) ==
    IF list = <<>> THEN <<>>
    ELSE IF Len(list) = 1 THEN <<list[1]>>
    ELSE <<list[1], ",">> \o Join(Tail(list))

\* text.split(','): cur is the item being read
RECURSIVE Split(_, _, _)
Split(text, cur, acc) ==
    IF text = <<>> THEN Append(acc, cur)
    ELSE IF Head(text) = "," THEN Split(Tail(text), "", Append(acc, cur))
    ELSE Split(Tail(text), cur \o Head(text), acc)

Slots(m) == {m.male_player1, m.female_player1, m.male_player2, m.female_player2}

IsActive(m) == m.status \in {"scheduled", "ongoing"}

\* the slot-holders of today's scheduled and ongoing rows only
unavailable_players_Today(ms) ==
    UNION {Slots(ms[i]) : i \in {j \in 1..Len(ms) : IsActive(ms[j]) /\ ms[j].date = Today}}

\* the slot-holders of the scheduled and ongoing rows
unavailable_players(ms) == UNION {Slots(ms[i]) : i \in {j \in 1..Len(ms) : IsActive(ms[j])}}

\* today's present list, or nobody when today has no record
present_players_usernames_FailClosed(att) ==
    LET today_attendance == SelectSeq(att, LAMBDA r : r.date = Today)
    IN IF today_attendance # <<>>
       THEN Split(today_attendance[1].present_players, "", <<>>)
       ELSE <<>>

\* today's present list, or every username when today has no record or an
\* empty one
present_players_usernames_EmptyIsAbsent(att) ==
    LET today_attendance == SelectSeq(att, LAMBDA r : r.date = Today)
    IN IF today_attendance # <<>> /\ today_attendance[1].present_players # <<>>
       THEN Split(today_attendance[1].present_players, "", <<>>)
       ELSE Directory

\* today's present list, or every username when today has no record
present_players_usernames(att) ==
    LET today_attendance == SelectSeq(att, LAMBDA r : r.date = Today)
    IN IF today_attendance # <<>>
       THEN Split(today_attendance[1].present_players, "", <<>>)
       ELSE Directory

available_usernames(att, ms) ==
    SelectSeq(present_players_usernames(att), LAMBDA p : p \notin unavailable_players(ms))

\* players_df[players_df['username'].isin(available_usernames)], usernames only
available_players(att, ms) ==
    SelectSeq(Directory, LAMBDA u : u \in Range(available_usernames(att, ms)))

\* the females of the present list, in an active match or not
female_players_Active(att, ms) ==
    SelectSeq(SelectSeq(Directory, LAMBDA u : u \in Range(present_players_usernames(att))),
              LAMBDA u : Gender[u] = "Female")

female_players(att, ms) ==
    SelectSeq(available_players(att, ms), LAMBDA u : Gender[u] = "Female")

\* the WHERE clause of the three match statements
SameKey(m, r) ==
    /\ m.date = r.date
    /\ m.game_type = r.game_type
    /\ m.male_player1 = r.male_player1

\* UPDATE matches SET status = 'ongoing' WHERE ...
UpdateStarted(ms, r) ==
    [i \in 1..Len(ms) |-> IF SameKey(ms[i], r) THEN [ms[i] EXCEPT !.status = "ongoing"] ELSE ms[i]]

\* DELETE FROM matches WHERE ...
DeleteWhere(ms, r) == SelectSeq(ms, LAMBDA m : ~SameKey(m, r))

\* the UPDATE storing the team that is credited instead of the submitted value
UpdateFinished_Credited(ms, r, winner_team, score, remark) ==
    [i \in 1..Len(ms) |->
        IF SameKey(ms[i], r)
        THEN [ms[i] EXCEPT !.status = "completed",
                           !.winner_team = Some(IF winner_team = "Team 1" THEN "Team 1"
                                                ELSE "Team 2"),
                           !.score = Some(score), !.remark = Some(remark)]
        ELSE ms[i]]

\* UPDATE matches SET status = 'completed', winner_team, score, remark WHERE ...
UpdateFinished(ms, r, winner_team, score, remark) ==
    [i \in 1..Len(ms) |->
        IF SameKey(ms[i], r)
        THEN [ms[i] EXCEPT !.status = "completed", !.winner_team = Some(winner_team),
                           !.score = Some(score), !.remark = Some(remark)]
        ELSE ms[i]]

\* finish_match crediting the win to the first winner only
PlayerUpdates_OneWinner(r, winner_team) ==
    IF winner_team = "Team 1"
    THEN << <<r.male_player1, "wins">>,
            <<r.male_player2, "losses">>, <<r.female_player2, "losses">> >>
    ELSE << <<r.male_player2, "wins">>,
            <<r.male_player1, "losses">>, <<r.female_player1, "losses">> >>

\* the four (username, column) counter statements of finish_match, in order
PlayerUpdates(r, winner_team) ==
    IF winner_team = "Team 1"
    THEN << <<r.male_player1, "wins">>, <<r.female_player1, "wins">>,
            <<r.male_player2, "losses">>, <<r.female_player2, "losses">> >>
    ELSE << <<r.male_player2, "wins">>, <<r.female_player2, "wins">>,
            <<r.male_player1, "losses">>, <<r.female_player1, "losses">> >>

\* UPDATE players SET col = col + 1 WHERE username = ...
UpdatePlayer(ps, upd) ==
    [u \in DOMAIN ps |->
        IF u = upd[1]
        THEN IF upd[2] = "wins" THEN [ps[u] EXCEPT !.wins = @ + 1]
             ELSE [ps[u] EXCEPT !.losses = @ + 1]
        ELSE ps[u]]

RECURSIVE UpdatePlayers(_, _)
UpdatePlayers(ps, upds) ==
    IF upds = <<>> THEN ps ELSE UpdatePlayers(UpdatePlayer(ps, Head(upds)), Tail(upds))

\* matches_df.iloc[match_index] exists (a negative index counts from the end)
InFrame(ms, match_index) ==
    IF match_index >= 0 THEN match_index < Len(ms) ELSE 0 - match_index <= Len(ms)

Iloc(ms, match_index) ==
    IF match_index >= 0 THEN ms[match_index + 1] ELSE ms[Len(ms) + match_index + 1]

NewMatch(p1, p2, p3, p4, date_val, game_type) ==
    [male_player1 |-> p1, female_player1 |-> p2, male_player2 |-> p3, female_player2 |-> p4,
     date |-> date_val, game_type |-> game_type, status |-> "scheduled",
     winner_team |-> Null, score |-> Null, remark |-> Null]


\* ------------------------------------------------------------ form inputs
MixedForm(p1, p2, p3, p4, r1, r2) ==
    [male_player1 |-> p1, female_player1 |-> p2, male_player2 |-> p3, female_player2 |-> p4,
     randomize1 |-> r1, randomize2 |-> r2]

\* create_match submissions: all manual, both females random, one female
\* picked and one random, a blank slot, a username picked twice
MixedForms ==
    { MixedForm("m1", "f1", "m2", "f2", FALSE, FALSE),
      MixedForm("m1", "", "m2", "", TRUE, TRUE),
      MixedForm("m1", "f1", "m2", "", FALSE, TRUE),
      MixedForm("m1", "f1", "m2", "", FALSE, FALSE),
      MixedForm("m1", "f1", "m1", "f2", FALSE, FALSE) }

\* create_custom_match submissions: team1_player1, team1_player2, team2_player1,
\* team2_player2; "zz" is a username no row of players has
CustomForms ==
    { <<"m2", "f2", "m1", "f1">>,
      <<"m2", "", "m1", "f1">>,
      <<"m2", "m2", "m1", "f1">>,
      <<"m2", "f2", "m1", "zz">> }

\* present_players lists the attendance form submits
AttendanceForms == { <<>>, <<"m1", "m2", "f1">> }

\* match_index of the start and cancel routes (<int:...> takes no sign)
RouteIndexes == 0..MaxMatches
\* match_index of the finish form (int() takes a sign)
FormIndexes == -1..MaxMatches

\* ------------------------------------------------------------------- state
VARIABLES
    matches,      \* the matches table, in the order get_all_matches returns it
    players,      \* the players table: username -> [wins, losses]
    attendance,   \* the attendance table: rows [date, present_players]
    last,         \* the last request: handler, arguments, flashed message
    requests,     \* the number of requests handled
    fin,          \* the finish_match request in flight: its locals and position
    seen,         \* what a concurrent page read from the tables, if one did
    saves         \* the attendance requests in flight: their locals and position

vars == <<matches, players, attendance, last, requests, fin, seen, saves>>

\* the admin sessions that may post attendance at the same time
Admins == {"a1", "a2"}

NoSave == [pc |-> "idle", present_players |-> <<>>]

NoFinish == [pc |-> "idle", arg |-> <<>>, pending |-> <<>>, before |-> <<>>]

Init ==
    /\ matches = <<>>
    /\ players = [u \in Usernames |-> [wins |-> 0, losses |-> 0]]
    /\ attendance = <<>>
    /\ last = [op |-> "none", arg |-> <<>>, res |-> "none"]
    /\ requests = 0
    /\ fin = NoFinish
    /\ seen = <<>>
    /\ saves = [a \in Admins |-> NoSave]

\* the response of a request: the flashed message
Respond(op, arg, res) ==
    /\ requests < MaxRequests
    /\ requests' = requests + 1
    /\ last' = [op |-> op, arg |-> arg, res |-> res]

\* the response of a handler that runs from its reads to its redirect in one
\* step: no finish_match is in flight, and its locals and the page read during
\* it are gone
Flash(op, arg, res) ==
    /\ fin.pc = "idle"
    /\ Respond(op, arg, res)
    /\ fin' = NoFinish
    /\ seen' = <<>>
    /\ UNCHANGED saves

\* ---------------------------------------------------------------- handlers
\* POST /admin/attendance
Attendance(present_players) ==
    /\ attendance' = Append(SelectSeq(attendance, LAMBDA r : r.date # Today),
                            [date |-> Today, present_players |-> Join(present_players)])
    /\ Flash("attendance", present_players, "saved")
    /\ UNCHANGED <<matches, players>>

\* the slot checks without the test of uniqueness
Validate_NoUnique(all_players) ==
    IF "" \in Range(all_players) THEN "slots_unfilled" ELSE "created"

\* the two slot checks that end both create handlers ("" stands for a field that
\* is empty or missing)
Validate(all_players) ==
    IF "" \in Range(all_players) THEN "slots_unfilled"
    ELSE IF Cardinality(Range(all_players)) < 4 THEN "not_unique"
    ELSE "created"

\* the outcomes of create_match for one submission: the random draws are any
\* element of the pool
MixedOutcomes(f, females) ==
    LET manually_picked == {f.male_player1, f.female_player1, f.male_player2,
                            f.female_player2} \ {""}
        pool0 == SelectSeq(females, LAMBDA u : u \notin manually_picked)
        Roster(fp1, fp2) == <<f.male_player1, fp1, f.male_player2, fp2>>
        Second(fp1, pool1) ==
            IF f.randomize2
            THEN IF pool1 = <<>>
                 THEN {[res |-> "not_enough_females", all_players |-> <<>>]}
                 ELSE {[res |-> Validate(Roster(fp1, fp2)), all_players |-> Roster(fp1, fp2)] :
                          fp2 \in Range(pool1)}
            ELSE {[res |-> Validate(Roster(fp1, f.female_player2)),
                   all_players |-> Roster(fp1, f.female_player2)]}
    IN IF f.randomize1
       THEN IF pool0 = <<>>
            THEN {[res |-> "not_enough_females", all_players |-> <<>>]}
            ELSE UNION {Second(fp1, SelectSeq(pool0, LAMBDA u : u # fp1)) : fp1 \in Range(pool0)}
       ELSE Second(f.female_player1, pool0)

\* the insert running although the usernames are not unique
InsertMatch_Duplicates(ms, o, date_val, game_type) ==
    IF o.res \in {"created", "not_unique"}
    THEN Append(ms, NewMatch(o.all_players[1], o.all_players[2], o.all_players[3],
                             o.all_players[4], date_val, game_type))
    ELSE ms

\* insert_rows_json(MATCHES_TABLE_ID, ...) when the checks pass
InsertMatch(ms, o, date_val, game_type) ==
    IF o.res = "created"
    THEN Append(ms, NewMatch(o.all_players[1], o.all_players[2], o.all_players[3],
                             o.all_players[4], date_val, game_type))
    ELSE ms

\* POST /admin/create_match
CreateMatch(f, date_val, game_type) ==
    \E o \in MixedOutcomes(f, female_players(attendance, matches)) :
        /\ o.res = "created" => Len(matches) < MaxMatches
        /\ matches' = InsertMatch(matches, o, date_val, game_type)
        /\ Flash("create_match", f, o.res)
        /\ UNCHANGED <<players, attendance>>

\* POST /admin/create_custom_match
CreateCustomMatch(f, date_val, game_type) ==
    LET o == [res |-> Validate(f), all_players |-> f] IN
    /\ o.res = "created" => Len(matches) < MaxMatches
    /\ matches' = InsertMatch(matches, o, date_val, game_type)
    /\ Flash("create_custom_match", f, o.res)
    /\ UNCHANGED <<players, attendance>>

\* GET /admin/start_match/<match_index>
StartMatch(match_index) ==
    /\ IF match_index < Len(matches)
       THEN /\ matches' = UpdateStarted(matches, Iloc(matches, match_index))
            /\ Flash("start_match", match_index, "started")
       ELSE /\ Flash("start_match", match_index, "invalid_index")
            /\ UNCHANGED matches
    /\ UNCHANGED <<players, attendance>>

\* cancel_match without the test of the status
CancelMatch_AnyStatus(match_index) ==
    /\ IF match_index < Len(matches)
       THEN /\ matches' = DeleteWhere(matches, Iloc(matches, match_index))
            /\ Flash("cancel_match", match_index, "canceled")
       ELSE /\ Flash("cancel_match", match_index, "could_not_cancel")
            /\ UNCHANGED matches
    /\ UNCHANGED <<players, attendance>>

\* GET /admin/cancel_match/<match_index>
CancelMatch(match_index) ==
    /\ IF match_index < Len(matches) /\ Iloc(matches, match_index).status = "scheduled"
       THEN /\ matches' = DeleteWhere(matches, Iloc(matches, match_index))
            /\ Flash("cancel_match", match_index, "canceled")
       ELSE /\ Flash("cancel_match", match_index, "could_not_cancel")
            /\ UNCHANGED matches
    /\ UNCHANGED <<players, attendance>>

\* POST /admin/finish_match, every statement succeeding
FinishMatch(match_index, winner_team, score) ==
    LET remark == generate_remark(score)
        arg == <<match_index, winner_team, score>>
    IN
    /\ IF match_index < Len(matches)
       THEN IF ~InFrame(matches, match_index)
            THEN /\ Flash("finish_match", arg, "IndexError")
                 /\ UNCHANGED <<matches, players>>
            ELSE LET match_to_update == Iloc(matches, match_index)
                 IN /\ matches' = UpdateFinished(matches, match_to_update, winner_team,
                                                 score, remark)
                    /\ players' = UpdatePlayers(players,
                                                PlayerUpdates(match_to_update, winner_team))
                    /\ Flash("finish_match", arg, "finished")
       ELSE /\ Flash("finish_match", arg, "invalid_index")
            /\ UNCHANGED <<matches, players>>
    /\ UNCHANGED attendance

Next ==
    \/ \E p \in AttendanceForms : Attendance(p)
    \/ \E f \in MixedForms, d \in Dates, g \in GameTypes : CreateMatch(f, d, g)
    \/ \E f \in CustomForms, d \in Dates, g \in GameTypes : CreateCustomMatch(f, d, g)
    \/ \E i \in RouteIndexes : StartMatch(i)
    \/ \E i \in RouteIndexes : CancelMatch(i)
    \/ \E i \in FormIndexes, f \in FinishForms : FinishMatch(i, f.winner_team, f.score)

Spec == Init /\ [][Next]_vars

\* ------------------------------------- finish_match statement by statement
\* finish_match up to its first statement, the UPDATE of matches; the statement
\* runs or raises
FinishBegin(match_index, winner_team, score) ==
    LET remark == generate_remark(score)
        arg == <<match_index, winner_team, score>>
    IN
    /\ fin.pc = "idle"
    /\ requests < MaxRequests
    /\ match_index < Len(matches)
    /\ InFrame(matches, match_index)
    /\ LET match_to_update == Iloc(matches, match_index)
           started == [pc |-> "players", arg |-> arg,
                       pending |-> PlayerUpdates(match_to_update, winner_team),
                       before |-> <<[matches |-> matches, players |-> players]>>]
       IN \/ /\ matches' = UpdateFinished(matches, match_to_update, winner_team, score, remark)
             /\ fin' = started
             /\ UNCHANGED <<last, requests>>
          \/ /\ Respond("finish_match", arg, "ServerError")
             /\ fin' = [started EXCEPT !.pc = "idle", !.pending = <<>>]
             /\ UNCHANGED matches
    /\ seen' = <<>>
    /\ UNCHANGED <<players, attendance, saves>>

\* the next UPDATE of players runs; after the last one the handler flashes
FinishStatement ==
    /\ fin.pc = "players"
    /\ players' = UpdatePlayer(players, Head(fin.pending))
    /\ IF Len(fin.pending) = 1
       THEN /\ Respond("finish_match", fin.arg, "finished")
            /\ fin' = [fin EXCEPT !.pc = "idle", !.pending = <<>>]
       ELSE /\ fin' = [fin EXCEPT !.pending = Tail(fin.pending)]
            /\ UNCHANGED <<last, requests>>
    /\ UNCHANGED <<matches, attendance, seen, saves>>

\* the next UPDATE of players raises: the request ends with an error page
FinishRaises ==
    /\ fin.pc = "players"
    /\ Respond("finish_match", fin.arg, "ServerError")
    /\ fin' = [fin EXCEPT !.pc = "idle", !.pending = <<>>]
    /\ UNCHANGED <<matches, players, attendance, seen, saves>>

\* GET /player/<username> while a finish_match is in flight: get_all_players
\* and get_all_matches
PlayerProfile ==
    /\ fin.pc = "players"
    /\ seen' = <<[matches |-> matches, players |-> players]>>
    /\ UNCHANGED <<matches, players, attendance, last, requests, fin, saves>>

NextIO ==
    \/ \E f \in CustomForms, d \in Dates, g \in GameTypes : CreateCustomMatch(f, d, g)
    \/ \E i \in RouteIndexes : StartMatch(i)
    \/ \E i \in FormIndexes, f \in FinishForms : FinishBegin(i, f.winner_team, f.score)
    \/ FinishStatement
    \/ FinishRaises
    \/ PlayerProfile

SpecIO == Init /\ [][NextIO]_vars

\* ------------------------------------------------ generate_remark on its own
\* the score texts: every text of at most MaxScoreLen of these characters, and
\* the texts typed in full
ScoreChars == {"1", "3", "6", "-"}

ScoreExamples ==
    { <<"2", "1", "-", "1", "9">>,
      <<"2", "1", "-", "1", "0">>,
      <<"2", "1", "-", "1", "5">>,
      <<"n", "o", "t", " ", "a", " ", "s", "c", "o", "r", "e">>,
      <<"2", "1", "-", "1", "9", ",", " ", "1", "9", "-", "2", "1">> }

Scores == ScoreExamples \cup UNION {[1..n -> ScoreChars] : n \in 0..MaxScoreLen}

\* a call of generate_remark(score) about to be made
InitRemark ==
    /\ matches = <<>>
    /\ players = [u \in Usernames |-> [wins |-> 0, losses |-> 0]]
    /\ attendance = <<>>
    /\ last \in {[op |-> "generate_remark", arg |-> score, res |-> "none"] : score \in Scores}
    /\ requests = 0
    /\ fin = NoFinish
    /\ seen = <<>>
    /\ saves = [a \in Admins |-> NoSave]

\* the call returns
GenerateRemark ==
    /\ last.op = "generate_remark" /\ last.res = "none"
    /\ last' = [last EXCEPT !.res = generate_remark(last.arg)]
    /\ UNCHANGED <<matches, players, attendance, requests, fin, seen, saves>>

NextRemark == GenerateRemark

SpecRemark == InitRemark /\ [][NextRemark]_vars

\* ----------------------------------------------------------------- rankings
\* wins and losses a row of players may hold when the page is asked for
Counters ==
    { [wins |-> 0, losses |-> 0], [wins |-> 0, losses |-> 3],
      [wins |-> 5, losses |-> 0], [wins |-> 1, losses |-> 1] }

\* (wins + losses).replace(0, 1)
Denominator(p) == IF p.wins + p.losses = 0 THEN 1 ELSE p.wins + p.losses

\* win_loss_ratio of p < win_loss_ratio of q, the quotients compared exactly
RatioBelow(p, q) == p.wins * Denominator(q) < q.wins * Denominator(p)

\* sort_values(by='win_loss_ratio', ascending=False) with the default kind,
\* quicksort, which is not a stable sort: every order of the rows in which no
\* ratio is below a later one
RankedPlayers(ps) ==
    LET n == Len(Directory)
        sorted == {perm \in Permutations(1..n) :
                      \A i, j \in 1..n :
                          i < j => ~RatioBelow(ps[Directory[perm[i]]], ps[Directory[perm[j]]])}
    IN {[i \in 1..n |-> Directory[perm[i]]] : perm \in sorted}

\* the players table when GET /rankings arrives
InitRank ==
    /\ matches = <<>>
    /\ players \in [Usernames -> Counters]
    /\ attendance = <<>>
    /\ last = [op |-> "none", arg |-> <<>>, res |-> "none"]
    /\ requests = 0
    /\ fin = NoFinish
    /\ seen = <<>>
    /\ saves = [a \in Admins |-> NoSave]

\* GET /rankings: res is the column of usernames of the rendered list
Rankings ==
    /\ last.op = "none"
    /\ \E ranked_players \in RankedPlayers(players) :
           last' = [op |-> "rankings", arg |-> <<>>, res |-> ranked_players]
    /\ UNCHANGED <<matches, players, attendance, requests, fin, seen, saves>>

NextRank == Rankings

SpecRank == InitRank /\ [][NextRank]_vars

\* ---------------------------------------- attendance statement by statement
\* the attendance table with the record saved the day before
InitAtt ==
    /\ matches = <<>>
    /\ players = [u \in Usernames |-> [wins |-> 0, losses |-> 0]]
    /\ attendance = <<[date |-> "d1", present_players |-> Join(<<"m1", "f1">>)]>>
    /\ last = [op |-> "none", arg |-> <<>>, res |-> "none"]
    /\ requests = 0
    /\ fin = NoFinish
    /\ seen = <<>>
    /\ saves = [a \in Admins |-> NoSave]

\* POST /admin/attendance up to its first statement, the DELETE of today's rows
AttendanceDelete(a, present_players) ==
    /\ saves[a].pc = "idle"
    /\ requests < MaxRequests
    /\ attendance' = SelectSeq(attendance, LAMBDA r : r.date # Today)
    /\ saves' = [saves EXCEPT ![a] = [pc |-> "insert", present_players |-> present_players]]
    /\ UNCHANGED <<matches, players, last, requests, fin, seen>>

\* delete_job.result() raises: the request ends with an error page
AttendanceDeleteRaises(a, present_players) ==
    /\ saves[a].pc = "idle"
    /\ Respond("attendance", present_players, "ServerError")
    /\ UNCHANGED <<matches, players, attendance, fin, seen, saves>>

\* insert_rows_json(ATTENDANCE_TABLE_ID, new_record) returns no errors
AttendanceInsert(a) ==
    /\ saves[a].pc = "insert"
    /\ attendance' = Append(attendance,
                            [date |-> Today,
                             present_players |-> Join(saves[a].present_players)])
    /\ Respond("attendance", saves[a].present_players, "saved")
    /\ saves' = [saves EXCEPT ![a] = NoSave]
    /\ UNCHANGED <<matches, players, fin, seen>>

\* insert_rows_json returns errors: the handler flashes them
AttendanceInsertErrors(a) ==
    /\ saves[a].pc = "insert"
    /\ Respond("attendance", saves[a].present_players, "error_saving")
    /\ saves' = [saves EXCEPT ![a] = NoSave]
    /\ UNCHANGED <<matches, players, attendance, fin, seen>>

NextAtt ==
    \/ \E a \in Admins, p \in AttendanceForms : AttendanceDelete(a, p)
    \/ \E a \in Admins, p \in AttendanceForms : AttendanceDeleteRaises(a, p)
    \/ \E a \in Admins : AttendanceInsert(a)
    \/ \E a \in Admins : AttendanceInsertErrors(a)

SpecAtt == InitAtt /\ [][NextAtt]_vars

\* ------------------------------------------------------------------ claims
\* the step is a request of handler op
Handled(op) == requests' = requests + 1 /\ last'.op = op

RowIndexes(ms) == 1..Len(ms)

Tally(ps, u) == ps[u].wins + ps[u].losses

\* C1: no username holds a slot in more than one scheduled or ongoing match.
C1_OneActiveMatchPerPlayer ==
    \A i, j \in RowIndexes(matches) :
        (i # j /\ IsActive(matches[i]) /\ IsActive(matches[j]))
            => Slots(matches[i]) \cap Slots(matches[j]) = {}

\* C2: a finish addressed to a match that is already completed is rejected and
\* changes neither the matches nor any player's wins or losses.
C2_SecondFinishRejected ==
    [][\A i \in FormIndexes :
          (/\ Handled("finish_match")
           /\ last'.arg[1] = i
           /\ i < Len(matches) /\ InFrame(matches, i)
           /\ Iloc(matches, i).status = "completed")
          => (/\ last'.res # "finished"
              /\ matches' = matches
              /\ players' = players)]_vars

\* C3: after a finish that failed on a storage write, the matches and the
\* players' wins and losses are what they were before the attempt.
C3_FailedFinishChangesNothing ==
    (last.op = "finish_match" /\ last.res = "ServerError")
        => (matches = fin.before[1].matches /\ players = fin.before[1].players)

\* the tables once every statement of the finish in flight has run
AfterFinish ==
    [matches |-> UpdateFinished(fin.before[1].matches,
                                Iloc(fin.before[1].matches, fin.arg[1]),
                                fin.arg[2], fin.arg[3], generate_remark(fin.arg[3])),
     players |-> UpdatePlayers(fin.before[1].players,
                               PlayerUpdates(Iloc(fin.before[1].matches, fin.arg[1]),
                                             fin.arg[2]))]

\* C4: a page that reads the tables while a finish is in flight sees them as
\* they were before the finish or as they are after all of it.
C4_ReaderSeesNoIntermediate ==
    seen # <<>> => (seen[1] = fin.before[1] \/ seen[1] = AfterFinish)

\* the two usernames finish credits with a win, and the two with a loss
WinningTeam(r, winner_team) ==
    IF winner_team = "Team 1" THEN {r.male_player1, r.female_player1}
    ELSE {r.male_player2, r.female_player2}

LosingTeam(r, winner_team) ==
    IF winner_team = "Team 1" THEN {r.male_player2, r.female_player2}
    ELSE {r.male_player1, r.female_player1}

\* C5: a successful finish of a scheduled or ongoing match completes it with the
\* submitted winner_team and score and the remark of that score, adds 1 to the
\* wins of the two winners and 1 to the losses of the two losers, and changes no
\* other counter.
C5_FinishEffect ==
    [][\A i \in FormIndexes, f \in FinishForms :
          (/\ Handled("finish_match")
           /\ last'.arg = <<i, f.winner_team, f.score>>
           /\ last'.res = "finished"
           /\ f.winner_team \in {"Team 1", "Team 2"}
           /\ IsActive(Iloc(matches, i)))
          => LET r == Iloc(matches, i) IN
             /\ Len(matches') = Len(matches)
             /\ Iloc(matches', i) =
                    [r EXCEPT !.status = "completed", !.winner_team = Some(f.winner_team),
                              !.score = Some(f.score),
                              !.remark = Some(generate_remark(f.score))]
             /\ \A u \in Usernames :
                    /\ players'[u].wins = players[u].wins
                          + (IF u \in WinningTeam(r, f.winner_team) THEN 1 ELSE 0)
                    /\ players'[u].losses = players[u].losses
                          + (IF u \in LosingTeam(r, f.winner_team) THEN 1 ELSE 0)]_vars

\* C5 witness: the first finish of a match, won by team 1 with 21-19: its row is
\* completed, each of its four players has played once, m3 never.
C5_Witness ==
    /\ last.op = "finish_match" /\ last.res = "finished" /\ last.arg[2] = "Team 1"
    /\ Len(matches) = 1
    /\ matches[1].status = "completed"
    /\ matches[1].remark = Some("Nice Close Game!")
    /\ \A u \in Slots(matches[1]) : Tally(players, u) = 1
    /\ Tally(players, "m3") = 0

\* the number of completed rows of ms in which u holds a slot
CompletedWith(ms, u) ==
    Cardinality({i \in RowIndexes(ms) : ms[i].status = "completed" /\ u \in Slots(ms[i])})

\* C6: after every step each player's wins + losses is the number of completed
\* matches the player holds a slot in, and no counter has decreased.
C6_TallyCountsCompletedMatches ==
    [][\A u \in Usernames :
          /\ Tally(players', u) = CompletedWith(matches', u)
          /\ players'[u].wins >= players[u].wins
          /\ players'[u].losses >= players[u].losses]_vars

ResultsUnset(m) == m.winner_team = Null /\ m.score = Null /\ m.remark = Null
ResultsSet(m) == m.winner_team # Null /\ m.score # Null /\ m.remark # Null

\* C7: after every step a scheduled or ongoing match has winner_team, score and
\* remark unset and a completed match has them set; a created match is scheduled
\* with the three unset; a result field becomes set only in a step that makes the
\* match completed.
C7_ResultFieldsFollowStatus ==
    [][/\ \A i \in RowIndexes(matches') :
             /\ IsActive(matches'[i]) => ResultsUnset(matches'[i])
             /\ matches'[i].status = "completed" => ResultsSet(matches'[i])
       /\ (last'.op \in {"create_match", "create_custom_match"} /\ last'.res = "created")
             => (/\ Len(matches') = Len(matches) + 1
                 /\ matches'[Len(matches')].status = "scheduled"
                 /\ ResultsUnset(matches'[Len(matches')]))
       /\ Len(matches') = Len(matches)
             => \A i \in RowIndexes(matches) :
                    (ResultsUnset(matches[i]) /\ ~ResultsUnset(matches'[i]))
                        => (IsActive(matches[i]) /\ matches'[i].status = "completed"
                            /\ ResultsSet(matches'[i]))]_vars

\* a row before and after a step of its life: the same, or one legal change
LegalRow(a, b) ==
    \/ a = b
    \/ /\ a.status = "scheduled"
       /\ b = [a EXCEPT !.status = "ongoing"]
    \/ /\ IsActive(a)
       /\ b.status = "completed"
       /\ [b EXCEPT !.status = a.status, !.winner_team = a.winner_team,
                    !.score = a.score, !.remark = a.remark] = a

\* ms2 is ms with every row kept after a legal change or, if scheduled, removed
RECURSIVE LegalStore(_, _)
LegalStore(ms, ms2) ==
    IF ms = <<>> THEN ms2 = <<>>
    ELSE \/ ms2 # <<>> /\ LegalRow(Head(ms), Head(ms2)) /\ LegalStore(Tail(ms), Tail(ms2))
         \/ Head(ms).status = "scheduled" /\ LegalStore(Tail(ms), ms2)

\* C8: a start, cancel or finish changes statuses only from scheduled to ongoing,
\* from scheduled to canceled (the row is removed) and from scheduled or ongoing
\* to completed; a completed match keeps its status and result fields and stays
\* in the store.
C8_OnlyLegalTransitions ==
    [][(requests' = requests + 1
        /\ last'.op \in {"start_match", "cancel_match", "finish_match"})
          => LegalStore(matches, matches')]_vars

\* C9: start makes a scheduled match ongoing; on an ongoing or completed match it
\* fails and leaves the matches unchanged.
C9_StartOnlyFromScheduled ==
    [][\A i \in RouteIndexes :
          (Handled("start_match") /\ last'.arg = i /\ i < Len(matches))
          => IF Iloc(matches, i).status = "scheduled"
             THEN /\ last'.res = "started"
                  /\ Len(matches') = Len(matches)
                  /\ Iloc(matches', i) = [Iloc(matches, i) EXCEPT !.status = "ongoing"]
             ELSE /\ last'.res # "started"
                  /\ matches' = matches]_vars

\* C10: cancel of an ongoing or completed match fails and leaves the matches
\* unchanged; cancel of a scheduled match removes it from the matches.
C10_CancelOnlyScheduled ==
    [][\A i \in RouteIndexes :
          (Handled("cancel_match") /\ last'.arg = i /\ i < Len(matches))
          => IF Iloc(matches, i).status = "scheduled"
             THEN /\ last'.res = "canceled"
                  /\ Len(matches') < Len(matches)
                  /\ Iloc(matches, i) \notin Range(matches')
             ELSE /\ last'.res = "could_not_cancel"
                  /\ matches' = matches
                  /\ players' = players]_vars

\* C10 witness: a cancel addressed to an ongoing match was refused and the match
\* is still there, ongoing.
C10_Witness ==
    /\ last.op = "cancel_match" /\ last.res = "could_not_cancel"
    /\ last.arg < Len(matches)
    /\ Iloc(matches, last.arg).status = "ongoing"

\* C11: every match in the store has one of the four statuses and four slot
\* usernames that are non-blank and pairwise distinct, however it was created.
C11_StatusAndDistinctSlots ==
    \A i \in RowIndexes(matches) :
        /\ matches[i].status \in {"scheduled", "ongoing", "completed", "canceled"}
        /\ "" \notin Slots(matches[i])
        /\ Cardinality(Slots(matches[i])) = 4

\* C11 witness: the store holds a match of the custom flow and, after it, a match
\* of the mixed flow whose two females were drawn at random.
C11_Witness ==
    /\ Len(matches) = 2
    /\ matches[1].male_player1 = "m2"
    /\ last.op = "create_match" /\ last.res = "created"
    /\ last.arg.randomize1 /\ last.arg.randomize2

\* C12: every slot of every match in the store holds a username of the players
\* table; a create whose roster has a username that is not registered fails and
\* stores no match.
C12_SlotsAreRegistered ==
    [][/\ \A i \in RowIndexes(matches') : Slots(matches'[i]) \subseteq Usernames
       /\ (/\ Handled("create_custom_match")
           /\ Range(last'.arg) \ ({""} \cup Usernames) # {})
             => (last'.res # "created" /\ matches' = matches)
       /\ (/\ Handled("create_match")
           /\ {last'.arg.male_player1, last'.arg.female_player1, last'.arg.male_player2,
               last'.arg.female_player2} \ ({""} \cup Usernames) # {})
             => (last'.res # "created" /\ matches' = matches)]_vars

\* the messages of a create that was turned down by a check of the roster
Rejections == {"not_enough_females", "slots_unfilled", "not_unique"}

\* C13: a create-match request turned down for an empty random pool, a blank
\* slot or usernames that are not distinct inserts no match and leaves the
\* matches, the players' counters and the attendance records unchanged.
C13_RejectedCreateChangesNothing ==
    [][((Handled("create_match") \/ Handled("create_custom_match"))
        /\ last'.res \in Rejections)
          => (matches' = matches /\ players' = players /\ attendance' = attendance)]_vars

\* C13 witness: with a match in the store and counters that moved, a mixed create
\* with two random slots was turned down for want of females.
C13_Witness ==
    /\ last.op = "create_match" /\ last.res = "not_enough_females"
    /\ Len(matches) = 1
    /\ Tally(players, "m1") = 1

\* the registered players marked present today, or all of them when today has
\* no attendance record
PresentToday(att) ==
    LET rows == {i \in 1..Len(att) : att[i].date = Today} IN
    IF rows = {} THEN Usernames
    ELSE LET first == CHOOSE i \in rows : \A j \in rows : i <= j
         IN {u \in Usernames : u \in Range(att[first].present_players)}

\* the usernames holding a slot of a scheduled or ongoing match
ActiveHolders(ms) ==
    {u \in UNION {Slots(ms[i]) : i \in RowIndexes(ms)} :
        \E i \in RowIndexes(ms) : IsActive(ms[i]) /\ u \in Slots(ms[i])}

AvailableFemales(att, ms) ==
    {u \in PresentToday(att) \ ActiveHolders(ms) : Gender[u] = "Female"}

ManualPicks(f) ==
    {f.male_player1, f.female_player1, f.male_player2, f.female_player2} \ {""}

\* C14: in a mixed create every randomly filled female slot gets a username of
\* the available female pool that is neither manually picked nor the one drawn
\* for the earlier random slot; with pool {f1, f2}, both slots random and no
\* female picked, the two slots get f1 and f2 in some order.
C14_RandomFillWithoutReplacement ==
    [][\A f \in MixedForms :
          (Handled("create_match") /\ last'.arg = f)
          => LET pool == AvailableFemales(attendance, matches)
                 new == matches'[Len(matches')]
             IN /\ last'.res = "created"
                   => /\ Len(matches') = Len(matches) + 1
                      /\ f.randomize1 => new.female_player1 \in pool \ ManualPicks(f)
                      /\ f.randomize2 => new.female_player2 \in pool \ ManualPicks(f)
                      /\ (f.randomize1 /\ f.randomize2)
                            => new.female_player1 # new.female_player2
                /\ (/\ f.randomize1 /\ f.randomize2
                    /\ f.female_player1 = "" /\ f.female_player2 = ""
                    /\ pool = {"f1", "f2"})
                   => /\ last'.res = "created"
                      /\ {new.female_player1, new.female_player2} = {"f1", "f2"}]_vars

\* C14 witness: both slots were drawn from the pool {f1, f2} once the first match
\* was completed, and the draw put f2 in the first slot and f1 in the second.
C14_Witness ==
    /\ last.op = "create_match" /\ last.res = "created"
    /\ last.arg.randomize1 /\ last.arg.randomize2
    /\ Len(matches) = 2
    /\ matches[1].status = "completed"
    /\ matches[2].female_player1 = "f2" /\ matches[2].female_player2 = "f1"

HasToday(att) == \E i \in 1..Len(att) : att[i].date = Today

\* C15: while today has no attendance record, the available players are all
\* the registered players except those holding a slot of a scheduled or ongoing
\* match.
C15_FailOpenAvailability ==
    ~HasToday(attendance)
        => /\ Range(available_usernames(attendance, matches))
                 = Usernames \ ActiveHolders(matches)
           /\ Range(available_players(attendance, matches))
                 = Usernames \ ActiveHolders(matches)

\* C15 witness: no attendance was ever taken, the one match is ongoing, and m3
\* alone is available.
C15_Witness ==
    /\ attendance = <<>>
    /\ Len(matches) = 1 /\ matches[1].status = "ongoing"
    /\ Range(available_players(attendance, matches)) = {"m3"}

\* u holds a slot of a scheduled or ongoing match of a day before today
HeldFromPriorDay(ms, u) ==
    \E i \in RowIndexes(ms) : IsActive(ms[i]) /\ ms[i].date # Today /\ u \in Slots(ms[i])

\* C16: while today has an attendance record, the available players are the
\* present players holding no slot of a scheduled or ongoing match of any date;
\* a present player held by an active match of a prior day is not available,
\* and is available in the first state in which no active match holds them.
C16_PresentMinusActive ==
    [][HasToday(attendance')
         => /\ Range(available_players(attendance', matches'))
                  = PresentToday(attendance') \ ActiveHolders(matches')
            /\ \A u \in PresentToday(attendance') :
                   /\ HeldFromPriorDay(matches', u)
                         => u \notin Range(available_players(attendance', matches'))
                   /\ (/\ HasToday(attendance)
                       /\ u \in PresentToday(attendance) \cap ActiveHolders(matches)
                       /\ u \notin ActiveHolders(matches'))
                         => u \in Range(available_players(attendance', matches'))]_vars

\* C16 witness: m1, m2 and f1 are present today and were held by a match of the
\* day before; its finish has just made the three available.
C16_Witness ==
    /\ HasToday(attendance)
    /\ last.op = "finish_match" /\ last.res = "finished"
    /\ Len(matches) = 1
    /\ matches[1].date # Today /\ matches[1].status = "completed"
    /\ "m1" \in Slots(matches[1])
    /\ Range(available_players(attendance, matches)) = {"m1", "m2", "f1"}

\* the match_index of the request the step handles
IndexOf(l) == IF l.op = "finish_match" THEN l.arg[1] ELSE l.arg

Lifecycle == {"start_match", "cancel_match", "finish_match"}

\* C17: a start, cancel or finish addressed to one match changes or removes
\* that match only: every other match is still in the store, unchanged and
\* under the identifier it had, also when it has the date, game_type and
\* male_player1 of the addressed one and also after a cancel.
C17_OnlyTheAddressedMatch ==
    [][(/\ requests' = requests + 1
        /\ last'.op \in Lifecycle
        /\ IndexOf(last') >= 0 /\ IndexOf(last') < Len(matches))
          => \A j \in RowIndexes(matches) :
                j # IndexOf(last') + 1
                    => (j <= Len(matches') /\ matches'[j] = matches[j])]_vars

\* C18: a start, cancel or finish whose match_index designates no match (at or
\* beyond the number of matches, or negative) fails and leaves the matches and
\* the players' counters unchanged.
C18_UnknownMatchRejected ==
    [][(/\ requests' = requests + 1
        /\ last'.op \in Lifecycle
        /\ (IndexOf(last') < 0 \/ IndexOf(last') >= Len(matches)))
          => /\ last'.res \in {"invalid_index", "could_not_cancel", "IndexError"}
             /\ matches' = matches
             /\ players' = players]_vars

\* the positions at which a maximal run of digits of the text s starts
RunStarts(s) ==
    {i \in 1..Len(s) : s[i] \in Digits /\ (i = 1 \/ s[i - 1] \notin Digits)}

\* the last position of the run of digits that starts at i
RunEnd(s, i) ==
    CHOOSE e \in i..Len(s) :
        /\ \A k \in i..e : s[k] \in Digits
        /\ e = Len(s) \/ s[e + 1] \notin Digits

\* the number written by the digits s[i..e]
RECURSIVE Decimal(_, _, _)
Decimal(s, i, e) ==
    IF e < i THEN 0 ELSE 10 * Decimal(s, i, e - 1) + DigitVal(s[e])

\* the sum of the integers of s whose runs start at the positions in starts
RECURSIVE SumOfRuns(_, _)
SumOfRuns(s, starts) ==
    IF starts = {} THEN 0
    ELSE LET i == CHOOSE i \in starts : TRUE
         IN Decimal(s, i, RunEnd(s, i)) + SumOfRuns(s, starts \ {i})

\* the runs at even (parity 0) or odd (parity 1) positions, counted from 0
RunsAt(s, parity) ==
    {i \in RunStarts(s) : Cardinality({j \in RunStarts(s) : j < i}) % 2 = parity}

\* the remark the contract gives the score text s
ExpectedRemark(s) ==
    LET n == Cardinality(RunStarts(s))
        d == Abs(SumOfRuns(s, RunsAt(s, 0)) - SumOfRuns(s, RunsAt(s, 1)))
    IN IF n < 2 \/ n % 2 = 1 THEN ""
       ELSE IF d <= 2 THEN "Nice Close Game!"
       ELSE IF 3 <= d /\ d <= 5 THEN "Well Fought Match!"
       ELSE "Decisive Victory!"

\* C19: the remark of a score is empty when the score has fewer than two
\* integers or an odd number of them; otherwise, with d the distance between
\* the sum of the integers at even positions and the sum of those at odd
\* positions, it is the close-game label for d <= 2, the well-fought label for
\* 3 <= d <= 5 and the decisive label for d > 5; so 21-19 is a close game, 21-10
\* and 21-15 are decisive, and a text without integers has the empty remark.
C19_RemarkTiers ==
    (last.op = "generate_remark" /\ last.res # "none")
        => /\ last.res = ExpectedRemark(last.arg)
           /\ last.arg = <<"2", "1", "-", "1", "9">> => last.res = "Nice Close Game!"
           /\ last.arg \in {<<"2", "1", "-", "1", "0">>, <<"2", "1", "-", "1", "5">>}
                 => last.res = "Decisive Victory!"
           /\ RunStarts(last.arg) = {} => last.res = ""

\* C19 witness: 6-3-6-3 has returned the decisive label (12 against 6).
C19_Witness ==
    /\ last.op = "generate_remark"
    /\ last.arg = <<"6", "-", "3", "-", "6", "-", "3">>
    /\ last.res = "Decisive Victory!"

\* the position of username u in the players table
DirectoryIndex(u) == CHOOSE i \in 1..Len(Directory) : Directory[i] = u

\* C20: the ranking is a permutation of the players in descending order of
\* wins / (wins + losses), the ratio of a player without matches being 0, and
\* players of equal ratio are in the order of the players table: 0-0 and 0-3
\* keep their order, and 5-0 is above both.
C20_RankingStableByRatio ==
    last.op = "rankings"
        => LET r == last.res
               n == Len(Directory)
           IN /\ Len(r) = n
              /\ Range(r) = Usernames
              /\ \A i, j \in 1..n :
                     i < j => /\ ~RatioBelow(players[r[i]], players[r[j]])
                              /\ ~RatioBelow(players[r[j]], players[r[i]])
                                    => DirectoryIndex(r[i]) < DirectoryIndex(r[j])
              /\ \A i, j \in 1..n :
                     (players[r[i]].wins = 5 /\ players[r[j]].wins = 0) => i < j

\* the rows of att for date d
RowsOf(att, d) == {i \in 1..Len(att) : att[i].date = d}

\* the usernames a present_players text lists
Listed(text) == Range(text) \ {","}

\* C21: after every step of any attendance saves, failed or interleaved, there
\* is at most one attendance record per date; when a save succeeds, today's
\* record lists exactly the usernames it submitted; the records of other dates
\* are as they were.
C21_AttendanceUpsert ==
    [][/\ \A d \in Dates : Cardinality(RowsOf(attendance', d)) <= 1
       /\ (Handled("attendance") /\ last'.res = "saved")
             => \E i \in RowsOf(attendance', Today) :
                   /\ RowsOf(attendance', Today) = {i}
                   /\ Listed(attendance'[i].present_players) = Range(last'.arg)
       /\ SelectSeq(attendance', LAMBDA r : r.date # Today)
             = SelectSeq(attendance, LAMBDA r : r.date # Today)]_vars

\* today has an attendance record and its present list is empty
EmptyToday(att) ==
    \E i \in RowsOf(att, Today) :
        /\ \A j \in RowsOf(att, Today) : i <= j
        /\ Listed(att[i].present_players) = {}

\* C22: while today's attendance record has nobody present, nobody is
\* available (the default of everybody applies only without a record), and a
\* create with a random slot fails for want of candidates and stores no match.
C22_EmptyAttendanceIsEmpty ==
    [][/\ EmptyToday(attendance')
             => /\ available_players(attendance', matches') = <<>>
                /\ female_players(attendance', matches') = <<>>
       /\ \A f \in MixedForms :
             (/\ Handled("create_match") /\ last'.arg = f
              /\ f.randomize1 \/ f.randomize2
              /\ EmptyToday(attendance))
                => (last'.res = "not_enough_females" /\ matches' = matches)]_vars

\* C22 witness: attendance was saved with nobody present, no match exists, and
\* the create with two random slots was turned down.
C22_Witness ==
    /\ EmptyToday(attendance)
    /\ matches = <<>>
    /\ last.op = "create_match" /\ last.res = "not_enough_females"
    /\ last.arg.randomize1

====
